---- MODULE Spec2Model ----
(***************************************************************************)
(* Model of SysLogHandler (syslog_handler.py): priority encoding, level    *)
(* mapping, message framing and the close/connect/send discipline of emit. *)
(*                                                                         *)
(* Python values that the code type-tests (isinstance(x, str)) are tagged  *)
(* records PyStr(s), PyInt(n); an escaping exception is PyExc(kind).       *)
(* Text is a sequence of Unicode code points, a payload a sequence of      *)
(* byte values.                                                            *)
(***************************************************************************)
EXTENDS Integers, Sequences, FiniteSets, TLC

\* ------------------------------------------------------------------ bounds
MaxEmits == 2

\* ------------------------------------------------------- Python values
PyStr(s) == [t |-> "str", v |-> s]
PyInt(n) == [t |-> "int", v |-> n]
PyExc(k) == [t |-> "exc", v |-> k]

\* ---------------------------------------------------- class constants
LOG_EMERG == 0
LOG_ALERT == 1
LOG_CRIT == 2
LOG_ERR == 3
LOG_WARNING == 4
LOG_NOTICE == 5
LOG_INFO == 6
LOG_DEBUG == 7

LOG_KERN == 0
LOG_USER == 1
LOG_MAIL == 2
LOG_DAEMON == 3
LOG_AUTH == 4
LOG_SYSLOG == 5
LOG_LPR == 6
LOG_NEWS == 7
LOG_UUCP == 8
LOG_CRON == 9
LOG_AUTHPRIV == 10
LOG_FTP == 11
LOG_LOCAL0 == 16
LOG_LOCAL1 == 17
LOG_LOCAL2 == 18
LOG_LOCAL3 == 19
LOG_LOCAL4 == 20
LOG_LOCAL5 == 21
LOG_LOCAL6 == 22
LOG_LOCAL7 == 23

priority_names ==
  [k \in {"alert", "crit", "critical", "debug", "emerg", "err", "error",
          "info", "notice", "panic", "warn", "warning"} |->
     CASE k = "alert" -> LOG_ALERT
       [] k = "crit" -> LOG_CRIT
       [] k = "critical" -> LOG_CRIT
       [] k = "debug" -> LOG_DEBUG
       [] k = "emerg" -> LOG_EMERG
       [] k = "err" -> LOG_ERR
       [] k = "error" -> LOG_ERR
       [] k = "info" -> LOG_INFO
       [] k = "notice" -> LOG_NOTICE
       [] k = "panic" -> LOG_EMERG
       [] k = "warn" -> LOG_WARNING
       [] k = "warning" -> LOG_WARNING]

facility_names ==
  [k \in {"auth", "authpriv", "cron", "daemon", "ftp", "kern", "lpr", "mail",
          "news", "security", "syslog", "user", "uucp", "local0", "local1",
          "local2", "local3", "local4", "local5", "local6", "local7"} |->
     CASE k = "auth" -> LOG_AUTH
       [] k = "authpriv" -> LOG_AUTHPRIV
       [] k = "cron" -> LOG_CRON
       [] k = "daemon" -> LOG_DAEMON
       [] k = "ftp" -> LOG_FTP
       [] k = "kern" -> LOG_KERN
       [] k = "lpr" -> LOG_LPR
       [] k = "mail" -> LOG_MAIL
       [] k = "news" -> LOG_NEWS
       [] k = "security" -> LOG_AUTH
       [] k = "syslog" -> LOG_SYSLOG
       [] k = "user" -> LOG_USER
       [] k = "uucp" -> LOG_UUCP
       [] k = "local0" -> LOG_LOCAL0
       [] k = "local1" -> LOG_LOCAL1
       [] k = "local2" -> LOG_LOCAL2
       [] k = "local3" -> LOG_LOCAL3
       [] k = "local4" -> LOG_LOCAL4
       [] k = "local5" -> LOG_LOCAL5
       [] k = "local6" -> LOG_LOCAL6
       [] k = "local7" -> LOG_LOCAL7]

priority_map ==
  [k \in {"DEBUG", "INFO", "WARNING", "ERROR", "CRITICAL"} |->
     CASE k = "DEBUG" -> "debug"
       [] k = "INFO" -> "info"
       [] k = "WARNING" -> "warning"
       [] k = "ERROR" -> "error"
       [] k = "CRITICAL" -> "critical"]

\* ------------------------------------------------------ integer helpers
\* a << n on Python's unbounded integers
Shl(a, n) == a * (2 ^ n)

\* a | b on non-negative integers, bit by bit
RECURSIVE BitOr(_, _)
BitOr(a, b) ==
  IF a = 0 THEN b
  ELSE IF b = 0 THEN a
  ELSE (IF a % 2 = 1 \/ b % 2 = 1 THEN 1 ELSE 0) + 2 * BitOr(a \div 2, b \div 2)

\* '%d' % n for n >= 0: the decimal digits as code points
RECURSIVE Digits(_)
Digits(n) ==
  IF n < 10 THEN <<48 + n>> ELSE Digits(n \div 10) \o <<48 + (n % 10)>>

\* str.encode('utf-8') for code points below 0x800
RECURSIVE Utf8(_)
Utf8(s) ==
  IF s = <<>> THEN <<>>
  ELSE LET c == Head(s)
       IN (IF c < 128 THEN <<c>>
           ELSE <<192 + (c \div 64), 128 + (c % 64)>>) \o Utf8(Tail(s))

\* ------------------------------------------------------- pure methods
\* d[k] on a dict with string keys: KeyError when the key is absent
Subscript(d, k) == IF k \in DOMAIN d THEN PyInt(d[k]) ELSE PyExc("KeyError")

mapPriorityNoDefault(levelName) ==
  IF levelName.t = "str" /\ levelName.v \in DOMAIN priority_map
  THEN priority_map[levelName.v]
  ELSE "unknown"

mapPriority(levelName) ==
  IF levelName.t = "str" /\ levelName.v \in DOMAIN priority_map
  THEN priority_map[levelName.v]
  ELSE "warning"

encodePriorityShift4(facility, priority) ==
  LET f == IF facility.t = "str" THEN Subscript(facility_names, facility.v)
           ELSE facility
  IN IF f.t = "exc" THEN f
     ELSE LET p == IF priority.t = "str"
                   THEN Subscript(priority_names, priority.v)
                   ELSE priority
          IN IF p.t = "exc" THEN p ELSE PyInt(BitOr(Shl(f.v, 4), p.v))

encodePriorityDefault(facility, priority) ==
  LET f == IF facility.t = "str"
           THEN (IF facility.v \in DOMAIN facility_names
                 THEN PyInt(facility_names[facility.v]) ELSE PyInt(LOG_USER))
           ELSE facility
      p == IF priority.t = "str"
           THEN (IF priority.v \in DOMAIN priority_names
                 THEN PyInt(priority_names[priority.v]) ELSE PyInt(LOG_WARNING))
           ELSE priority
  IN PyInt(BitOr(Shl(f.v, 3), p.v))

encodePriority(facility, priority) ==
  LET f == IF facility.t = "str" THEN Subscript(facility_names, facility.v)
           ELSE facility
  IN IF f.t = "exc" THEN f
     ELSE LET p == IF priority.t = "str"
                   THEN Subscript(priority_names, priority.v)
                   ELSE priority
          IN IF p.t = "exc" THEN p ELSE PyInt(BitOr(Shl(f.v, 3), p.v))

\* ------------------------------------------------------------ input sets
hello == <<104, 101, 108, 108, 111>>
host1 == <<104, 111, 115, 116, 49, 32>>

Procs == {1, 2}
Levels == {PyStr("DEBUG"), PyStr("INFO"), PyStr("WARNING"), PyStr("ERROR"),
           PyStr("CRITICAL"), PyStr("TRACE"), PyInt(20)}
Messages == {<<>>, hello, <<233>>}
Facilities == {PyInt(LOG_USER), PyStr("user"), PyInt(LOG_LOCAL7),
               PyStr("local7"), PyInt(LOG_KERN), PyStr("bogus")}
Idents == {<<>>, host1}
Formatters == {"identity", "decorated"}
\* what a call into the socket layer can do: return, raise RuntimeError,
\* or raise an error of another kind
Outcomes == {"ok", "RuntimeError", "OSError"}

\* --------------------------------------------------------------- state
VARIABLES
  facility,       \* self.facility
  ident,          \* self.ident
  append_nul,     \* self.append_nul
  formatter,      \* behaviour of the inherited format()
  open,           \* connections opened on self.socket and not closed since
  pc,             \* position of each caller inside emit
  log_level,      \* emit's argument
  message,        \* emit's argument
  fmsg,           \* emit's local msg after format()
  msg,            \* emit's local msg after line 172: the payload
  exc,            \* exception that left emit, "" if none
  console,        \* lines printed by the current call
  trace,          \* socket calls made by the current call, with outcomes
  sent,           \* arguments handed to socket.send by the current call
  openAtEntry,    \* value of open when the current call started
  emits,          \* number of emit calls made so far
  lastOutcome,    \* how the previous emit call ended
  overlap,        \* two calls have been inside the try block together
  connectOnOpen,  \* connect was issued while a connection was open
  sendOnClosed,   \* send was issued while no connection was open
  argFacility, argPriority, argLevel,   \* arguments of the pure calls
  encResult, mapResult                  \* their results, PyExc("none") before

config == <<facility, ident, append_nul, formatter>>
locals == <<log_level, message, fmsg, msg, exc, console, trace, sent,
            openAtEntry>>
history == <<emits, lastOutcome, overlap, connectOnOpen, sendOnClosed>>
pure == <<argFacility, argPriority, argLevel, encResult, mapResult>>
vars == <<config, open, pc, locals, history, pure>>

NoResult == PyExc("none")

Line(k, txt, et) == [kind |-> k, text |-> txt, etype |-> et]

\* ---------------------------------------------------------- emit pieces
\* LoggingHandler.format, reached through super().format: an external
\* formatter that either returns the text as is or decorates it
format(lvl, m) ==
  IF formatter = "identity" THEN m ELSE <<45, 32>> \o m

FramedNoIdent(idn, nul, m) ==
  IF nul THEN m \o <<0>> ELSE m

\* lines 161-164: ident prefix and NUL terminator
Framed(idn, nul, m) ==
  LET m1 == IF idn # <<>> THEN idn \o m ELSE m
  IN IF nul THEN m1 \o <<0>> ELSE m1

\* lines 168-169: '<%d>' % value, encoded
Header(value) == Utf8(<<60>> \o Digits(value) \o <<62>>)

TryEntrySkipClose == "connect"

TryEntryAfterFailure == IF lastOutcome \in {"reported", "raised"}
                        THEN "returned" ELSE "close"

\* line 177: the first statement of the try block
TryEntry == "close"

CaughtAll(e) == TRUE

\* line 180: except RuntimeError
Caught(e) == e = "RuntimeError"

FailureReportFormatted(p, e) ==
  << Line("error", <<>>, ""), Line("with", fmsg[p], ""),
     Line("traceback", <<>>, e) >>

\* lines 181-183: the report printed by the except clause
FailureReport(p, e) ==
  << Line("error", <<>>, ""), Line("with", message[p], ""),
     Line("traceback", <<>>, e) >>

InTry(p) == pc[p] \in {"close", "connect", "send"}

\* ------------------------------------------------------------- actions
\* lines 158-172, up to the entry of the try block
EmitCall(p, lvl, m) ==
  /\ pc[p] = "idle"
  /\ emits < MaxEmits
  /\ emits' = emits + 1
  /\ log_level' = [log_level EXCEPT ![p] = lvl]
  /\ message' = [message EXCEPT ![p] = m]
  /\ LET fm == format(lvl, m)
         prio == encodePriority(facility, PyStr(mapPriority(lvl)))
     IN /\ fmsg' = [fmsg EXCEPT ![p] = fm]
        /\ console' = [console EXCEPT ![p] =
                         << Line("received", m, ""), Line("formatted", fm, "") >>]
        /\ IF prio.t = "exc"
           THEN /\ pc' = [pc EXCEPT ![p] = "raised"]
                /\ exc' = [exc EXCEPT ![p] = prio.v]
                /\ msg' = msg
           ELSE /\ pc' = [pc EXCEPT ![p] = TryEntry]
                /\ exc' = exc
                /\ msg' = [msg EXCEPT ![p] =
                             Header(prio.v) \o Utf8(Framed(ident, append_nul, fm))]
  /\ openAtEntry' = [openAtEntry EXCEPT ![p] = open]
  /\ overlap' = (overlap \/ (\E q \in Procs \ {p} : InTry(q) /\ InTry(p)'))
  /\ UNCHANGED <<config, open, trace, sent, lastOutcome, connectOnOpen,
                 sendOnClosed, pure>>

\* lines 180-183, or propagation when the except clause does not match
Raise(p, e) ==
  IF Caught(e)
  THEN /\ pc' = [pc EXCEPT ![p] = "returned"]
       /\ console' = [console EXCEPT ![p] = @ \o FailureReport(p, e)]
       /\ exc' = exc
  ELSE /\ pc' = [pc EXCEPT ![p] = "raised"]
       /\ console' = console
       /\ exc' = [exc EXCEPT ![p] = e]

\* line 177: self._close()
DoClose(p, o) ==
  /\ pc[p] = "close"
  /\ trace' = [trace EXCEPT ![p] = Append(@, <<"close", o>>)]
  /\ IF o = "ok"
     THEN /\ open' = 0
          /\ pc' = [pc EXCEPT ![p] = "connect"]
          /\ UNCHANGED <<console, exc>>
     ELSE /\ open' = open
          /\ Raise(p, o)
  /\ UNCHANGED <<config, log_level, message, fmsg, msg, sent, openAtEntry,
                 history, pure>>

\* line 178: self._connect()
DoConnect(p, o) ==
  /\ pc[p] = "connect"
  /\ trace' = [trace EXCEPT ![p] = Append(@, <<"connect", o>>)]
  /\ connectOnOpen' = (connectOnOpen \/ open > 0)
  /\ IF o = "ok"
     THEN /\ open' = open + 1
          /\ pc' = [pc EXCEPT ![p] = "send"]
          /\ UNCHANGED <<console, exc>>
     ELSE /\ open' = open
          /\ Raise(p, o)
  /\ UNCHANGED <<config, log_level, message, fmsg, msg, sent, openAtEntry,
                 emits, lastOutcome, overlap, sendOnClosed, pure>>

DoSendThenClose(p, o) ==
  /\ pc[p] = "send"
  /\ trace' = [trace EXCEPT ![p] = Append(@, <<"send", o>>)]
  /\ sent' = [sent EXCEPT ![p] = Append(@, msg[p])]
  /\ sendOnClosed' = (sendOnClosed \/ open = 0)
  /\ open' = 0
  /\ IF o = "ok"
     THEN /\ pc' = [pc EXCEPT ![p] = "returned"]
          /\ UNCHANGED <<console, exc>>
     ELSE Raise(p, o)
  /\ UNCHANGED <<config, log_level, message, fmsg, msg, openAtEntry,
                 emits, lastOutcome, overlap, connectOnOpen, pure>>

\* line 179: self.socket.send(msg)
DoSend(p, o) ==
  /\ pc[p] = "send"
  /\ trace' = [trace EXCEPT ![p] = Append(@, <<"send", o>>)]
  /\ sent' = [sent EXCEPT ![p] = Append(@, msg[p])]
  /\ sendOnClosed' = (sendOnClosed \/ open = 0)
  /\ open' = open
  /\ IF o = "ok"
     THEN /\ pc' = [pc EXCEPT ![p] = "returned"]
          /\ UNCHANGED <<console, exc>>
     ELSE Raise(p, o)
  /\ UNCHANGED <<config, log_level, message, fmsg, msg, openAtEntry,
                 emits, lastOutcome, overlap, connectOnOpen, pure>>

Outcome(p) ==
  IF pc[p] = "raised" THEN "raised"
  ELSE IF \E i \in 1..Len(console[p]) : console[p][i].kind = "error"
       THEN "reported"
       ELSE "sent"

\* control is back with the caller, who may call emit again
Return(p) ==
  /\ pc[p] \in {"returned", "raised"}
  /\ pc' = [pc EXCEPT ![p] = "idle"]
  /\ lastOutcome' = Outcome(p)
  /\ log_level' = [log_level EXCEPT ![p] = PyInt(0)]
  /\ message' = [message EXCEPT ![p] = <<>>]
  /\ fmsg' = [fmsg EXCEPT ![p] = <<>>]
  /\ msg' = [msg EXCEPT ![p] = <<>>]
  /\ exc' = [exc EXCEPT ![p] = ""]
  /\ console' = [console EXCEPT ![p] = <<>>]
  /\ trace' = [trace EXCEPT ![p] = <<>>]
  /\ sent' = [sent EXCEPT ![p] = <<>>]
  /\ openAtEntry' = [openAtEntry EXCEPT ![p] = 0]
  /\ UNCHANGED <<config, open, emits, overlap, connectOnOpen, sendOnClosed,
                 pure>>

\* line 114: facility is a plain attribute; the owner of the handler
\* assigns it between calls
SetFacility(f) ==
  /\ \A p \in Procs : pc[p] = "idle"
  /\ emits > 0
  /\ emits < MaxEmits
  /\ f # facility
  /\ facility' = f
  /\ UNCHANGED <<ident, append_nul, formatter, open, pc, locals, history,
                 pure>>

\* a direct call of encodePriority
CallEncodePriority ==
  /\ encResult = NoResult
  /\ encResult' = encodePriority(argFacility, argPriority)
  /\ UNCHANGED <<config, open, pc, locals, history, argFacility,
                 argPriority, argLevel, mapResult>>

\* a direct call of mapPriority
CallMapPriority ==
  /\ mapResult = "none"
  /\ mapResult' = mapPriority(argLevel)
  /\ UNCHANGED <<config, open, pc, locals, history, argFacility,
                 argPriority, argLevel, encResult>>

\* ------------------------------------------------------- specifications
InitLocals ==
  /\ pc = [p \in Procs |-> "idle"]
  /\ log_level = [p \in Procs |-> PyInt(0)]
  /\ message = [p \in Procs |-> <<>>]
  /\ fmsg = [p \in Procs |-> <<>>]
  /\ msg = [p \in Procs |-> <<>>]
  /\ exc = [p \in Procs |-> ""]
  /\ console = [p \in Procs |-> <<>>]
  /\ trace = [p \in Procs |-> <<>>]
  /\ sent = [p \in Procs |-> <<>>]
  /\ openAtEntry = [p \in Procs |-> 0]
  /\ open = 0
  /\ emits = 0
  /\ lastOutcome = "none"
  /\ overlap = FALSE
  /\ connectOnOpen = FALSE
  /\ sendOnClosed = FALSE

InitPureIdle ==
  /\ argFacility = PyInt(LOG_USER)
  /\ argPriority = PyInt(LOG_INFO)
  /\ argLevel = PyStr("INFO")
  /\ encResult = NoResult
  /\ mapResult = "none"

\* one caller, one emit call after another
Init ==
  /\ facility \in Facilities
  /\ ident \in Idents
  /\ append_nul \in BOOLEAN
  /\ formatter \in Formatters
  /\ InitLocals
  /\ InitPureIdle

Next ==
  \/ \E lvl \in Levels, m \in Messages : EmitCall(1, lvl, m)
  \/ \E o \in Outcomes : DoClose(1, o)
  \/ \E o \in Outcomes : DoConnect(1, o)
  \/ \E o \in Outcomes : DoSend(1, o)
  \/ Return(1)
  \/ \E f \in Facilities : SetFacility(f)

Spec == Init /\ [][Next]_vars

\* two callers share one handler and may interleave at the socket calls
InitConc ==
  /\ facility = PyInt(LOG_USER)
  /\ ident = host1
  /\ append_nul = TRUE
  /\ formatter = "identity"
  /\ InitLocals
  /\ InitPureIdle

NextConc ==
  \/ \E p \in Procs, m \in {hello, <<233>>} : EmitCall(p, PyStr("INFO"), m)
  \/ \E p \in Procs, o \in Outcomes : DoClose(p, o)
  \/ \E p \in Procs, o \in Outcomes : DoConnect(p, o)
  \/ \E p \in Procs, o \in Outcomes : DoSend(p, o)
  \/ \E p \in Procs : Return(p)

SpecConc == InitConc /\ [][NextConc]_vars

\* the pure methods applied to arguments drawn from bounded sets
FacilityArgs ==
  {PyInt(f) : f \in 0..23} \cup
  {PyStr(k) : k \in DOMAIN facility_names \cup {"bogus_keyword", "info"}}
PriorityArgs ==
  {PyInt(s) : s \in 0..7} \cup
  {PyStr(k) : k \in DOMAIN priority_names \cup {"bogus_keyword", "user"}}
LevelArgs == Levels \cup {PyStr("info"), PyStr(""), PyInt(10)}

InitPure ==
  /\ facility = PyInt(LOG_USER)
  /\ ident = <<>>
  /\ append_nul = TRUE
  /\ formatter = "identity"
  /\ InitLocals
  /\ argFacility \in FacilityArgs
  /\ argPriority \in PriorityArgs
  /\ argLevel \in LevelArgs
  /\ encResult = NoResult
  /\ mapResult = "none"

NextPure == CallEncodePriority \/ CallMapPriority

SpecPure == InitPure /\ [][NextPure]_vars

\* ------------------------------------------------------------- properties
Finished(p) == pc[p] \in {"returned", "raised"}
LastCall(p) == trace[p][Len(trace[p])]
Has(p, step, o) == \E i \in 1..Len(trace[p]) : trace[p][i] = <<step, o>>
Count(p, k) == Cardinality({i \in 1..Len(console[p]) : console[p][i].kind = k})
FullCycle == << <<"close", "ok">>, <<"connect", "ok">>, <<"send", "ok">> >>

\* C1 as stated: whenever emit returns, the connection is closed
C1_Original == \A p \in Procs : pc[p] = "returned" => open = 0

\* C1, amended: every emit call starts with close, then connects and
\* sends, and does not close afterwards; on return the connection is open
\* if the call's connect succeeded, closed if its close succeeded and its
\* connect failed, and as it was before the call if its close failed
C1_Amended ==
  \A p \in Procs : pc[p] = "returned" =>
    /\ trace[p] # <<>>
    /\ trace[p][1][1] = "close"
    /\ (Has(p, "connect", "ok") => open = 1)
    /\ (Has(p, "close", "ok") /\ ~Has(p, "connect", "ok") => open = 0)
    /\ (~Has(p, "close", "ok") => open = openAtEntry[p])

C1_Witness == pc[1] = "returned" /\ trace[1] = FullCycle /\ open = 1

\* C2: a RuntimeError from close, connect or send does not leave emit;
\* the call returns with exactly one failure report, which carries the
\* original message text; a call whose send succeeded prints no report
C2_FailureReported ==
  \A p \in Procs : (Finished(p) /\ trace[p] # <<>>) =>
    /\ LastCall(p)[2] = "RuntimeError" =>
         /\ pc[p] = "returned"
         /\ exc[p] = ""
         /\ Count(p, "error") = 1
         /\ Count(p, "with") = 1
         /\ Count(p, "traceback") = 1
         /\ \A i \in 1..Len(console[p]) :
              console[p][i].kind = "with" => console[p][i].text = message[p]
    /\ LastCall(p) = <<"send", "ok">> =>
         /\ pc[p] = "returned"
         /\ Count(p, "error") = 0
         /\ Count(p, "with") = 0
         /\ Count(p, "traceback") = 0

C2_Witness ==
  /\ pc[1] = "returned"
  /\ trace[1] = << <<"close", "ok">>, <<"connect", "ok">>,
                   <<"send", "RuntimeError">> >>
  /\ formatter = "decorated"
  /\ message[1] = hello
  /\ Count(1, "error") = 1

\* C3: with emit calls made one after another there is never more than
\* one open connection, connect is never issued while a connection is
\* open, in every call connect directly follows a successful close, send
\* directly follows a successful connect, and at most one payload is sent
C3_OneConnection ==
  /\ open <= 1
  /\ ~connectOnOpen
  /\ \A p \in Procs :
       /\ Len(sent[p]) <= 1
       /\ \A i \in 1..Len(trace[p]) :
            /\ trace[p][i][1] = "connect" =>
                 i > 1 /\ trace[p][i - 1] = <<"close", "ok">>
            /\ trace[p][i][1] = "send" =>
                 /\ i > 1 /\ trace[p][i - 1] = <<"connect", "ok">>
                 /\ Len(sent[p]) = 1
       /\ Len(sent[p]) = 1 => Has(p, "connect", "ok")

C3_Witness ==
  /\ emits = 2
  /\ lastOutcome = "sent"
  /\ pc[1] = "returned"
  /\ trace[1] = FullCycle
  /\ Len(sent[1]) = 1

\* C4: whatever the outcome of the previous emit call, a call that got
\* past priority encoding attempts close first, connect if close
\* succeeded and send if connect succeeded
C4_IndependentCycle ==
  \A p \in Procs : (Finished(p) /\ exc[p] # "KeyError") =>
    /\ Len(trace[p]) >= 1
    /\ trace[p][1][1] = "close"
    /\ trace[p][1][2] = "ok" => Len(trace[p]) >= 2 /\ trace[p][2][1] = "connect"
    /\ (Len(trace[p]) >= 2 /\ trace[p][2][2] = "ok") =>
         Len(trace[p]) = 3 /\ trace[p][3][1] = "send"

C4_Witness ==
  /\ emits = 2
  /\ lastOutcome \in {"reported", "raised"}
  /\ pc[1] = "returned"
  /\ trace[1] = FullCycle

UnknownFacility ==
  facility.t = "str" /\ facility.v \notin DOMAIN facility_names

\* C5: encodePriority raises KeyError for a keyword missing from its map;
\* an emit call on a handler with an unknown facility keyword ends with
\* that KeyError, prints no failure report and makes no socket call, so
\* the connection is as it was before the call
C5_UnknownKeyword ==
  /\ encodePriority(PyStr("bogus_keyword"), PyStr("info")) = PyExc("KeyError")
  /\ encodePriority(PyInt(LOG_USER), PyStr("bogus_keyword")) = PyExc("KeyError")
  /\ \A p \in Procs : (UnknownFacility /\ pc[p] # "idle") =>
       /\ pc[p] = "raised"
       /\ exc[p] = "KeyError"
       /\ Count(p, "error") = 0
       /\ trace[p] = <<>>
       /\ sent[p] = <<>>
       /\ open = openAtEntry[p]

C5_Witness ==
  /\ UnknownFacility
  /\ pc[1] = "raised"
  /\ exc[1] = "KeyError"
  /\ open = 1

KnownFacility(a) ==
  IF a.t = "str" THEN a.v \in DOMAIN facility_names ELSE a.v \in 0..23
KnownPriority(a) ==
  IF a.t = "str" THEN a.v \in DOMAIN priority_names ELSE a.v \in 0..7
FacilityCode(a) == IF a.t = "str" THEN facility_names[a.v] ELSE a.v
PriorityCode(a) == IF a.t = "str" THEN priority_names[a.v] ELSE a.v

\* C6: for facility codes 0..23 and severities 0..7, given as integers or
\* as known keywords, encodePriority returns facility*8 + severity, a
\* value in 0..191 from which value >> 3 and value & 7 give the pair back;
\* ("user", "info") and (1, 6) both give 14
C6_EncodeRoundTrip ==
  (encResult # NoResult /\ KnownFacility(argFacility)
     /\ KnownPriority(argPriority)) =>
    LET f == FacilityCode(argFacility)
        s == PriorityCode(argPriority)
    IN /\ encResult = PyInt(f * 8 + s)
       /\ encResult.v \in 0..191
       /\ encResult.v \div 8 = f
       /\ encResult.v % 8 = s
       /\ (f = 1 /\ s = 6) => encResult.v = 14

C6_Witness ==
  /\ argFacility = PyStr("user")
  /\ argPriority = PyStr("info")
  /\ encResult = PyInt(14)

ExpectedKeyword(a) ==
  IF a.t # "str" THEN "warning"
  ELSE CASE a.v = "DEBUG" -> "debug"
         [] a.v = "INFO" -> "info"
         [] a.v = "WARNING" -> "warning"
         [] a.v = "ERROR" -> "error"
         [] a.v = "CRITICAL" -> "critical"
         [] OTHER -> "warning"

\* C7: mapPriority returns debug, info, warning, error, critical for the
\* five level names and warning for anything else; what it returns is
\* always a key of priority_names, so encoding it does not raise
C7_MapPriorityTotal ==
  mapResult # "none" =>
    /\ mapResult = ExpectedKeyword(argLevel)
    /\ mapResult \in DOMAIN priority_names
    /\ encodePriority(PyInt(LOG_USER), PyStr(mapResult)).t = "int"

C7_Witness == argLevel = PyInt(20) /\ mapResult = "warning"

ExpectedSeverity(a) ==
  IF a.t # "str" THEN 4
  ELSE CASE a.v = "DEBUG" -> 7
         [] a.v = "INFO" -> 6
         [] a.v = "WARNING" -> 4
         [] a.v = "ERROR" -> 3
         [] a.v = "CRITICAL" -> 2
         [] OTHER -> 4

ExpectedPayload(p) ==
  Utf8(<<60>>
       \o Digits(FacilityCode(facility) * 8 + ExpectedSeverity(log_level[p]))
       \o <<62>> \o ident \o format(log_level[p], message[p])
       \o (IF append_nul THEN <<0>> ELSE <<>>))

ExamplePayload ==
  <<60, 49, 52, 62, 104, 111, 115, 116, 49, 32, 104, 101, 108, 108, 111, 0>>

IsExample(p) ==
  /\ ident = host1
  /\ append_nul
  /\ facility \in {PyInt(LOG_USER), PyStr("user")}
  /\ log_level[p] = PyStr("INFO")
  /\ formatter = "identity"
  /\ message[p] = hello

\* C8: the payload an emit call builds and hands to send is "<", the
\* decimal priority value of the current facility and the call's level,
\* ">", the ident, the formatted message and a NUL if append_nul is set,
\* UTF-8 encoded; the documented example gives <14>host1 hello NUL
C8_Payload ==
  \A p \in Procs : (pc[p] # "idle" /\ exc[p] # "KeyError") =>
    /\ msg[p] = ExpectedPayload(p)
    /\ \A i \in 1..Len(sent[p]) : sent[p][i] = ExpectedPayload(p)
    /\ IsExample(p) => msg[p] = ExamplePayload

C8_Witness ==
  /\ emits = 2
  /\ IsExample(1)
  /\ pc[1] = "returned"
  /\ sent[1] = <<ExamplePayload>>

\* C9: a send while no connection is open, or a connect while one is
\* open, happens only after two emit calls were inside the try block at
\* the same time; interleaved calls do reach such a state
C9_RaceNeedsOverlap == (connectOnOpen \/ sendOnClosed) => overlap

C9_Witness ==
  /\ sendOnClosed
  /\ overlap
  /\ \E p \in Procs : trace[p] # <<>> /\ LastCall(p)[1] = "send"

\* C10: an error of another kind than RuntimeError raised by close,
\* connect or send leaves emit and no failure report is printed
C10_OtherErrorsPropagate ==
  \A p \in Procs : (Finished(p) /\ trace[p] # <<>>
                      /\ LastCall(p)[2] \notin {"ok", "RuntimeError"}) =>
    /\ pc[p] = "raised"
    /\ exc[p] = LastCall(p)[2]
    /\ Count(p, "error") = 0
    /\ Count(p, "with") = 0

C10_Witness ==
  /\ pc[1] = "raised"
  /\ exc[1] = "OSError"
  /\ LastCall(1) = <<"send", "OSError">>
====
